---- MODULE Spec2Model ----
(***************************************************************************)
(* Unictris: the Shape table (src/src/shape.rs) and the Board / Tetromino  *)
(* / Game engine (src/src/game.rs) as a state machine.  One action per     *)
(* public operation of Game: try_move, do_tick, and a write of the public  *)
(* field `paused`.  The variables op, arg, ret and path record the last    *)
(* call and what it returned; locked, fresh, over, ticks and played are    *)
(* history variables that the properties below read; shapes holds the      *)
(* values of the pure functions Shape::coor and Shape::dim, computed once. *)
(***************************************************************************)
EXTENDS Integers, Sequences, FiniteSets, TLC

VARIABLES
    board,      \* Game.board.board : [row -> [column -> u8]]
    tetromino,  \* Game.tetromino : [x, y, orientation, shape]
    tick,       \* Game.tick (u64) as 6 little-endian digits in base 6000
    score,      \* Game.score
    paused,     \* Game.paused
    panicked,   \* the process aborted on an out-of-range index (Rust panic)
    op,         \* the last call made: "new", "try_move", "do_tick", "pause"
    arg,        \* the Move handed to the last try_move ("-" otherwise)
    ret,        \* the value the last call returned
    path,       \* the branch the last call took
    locked,     \* history: the board as the last lock (or the start) left it
    fresh,      \* history: the active piece has not been painted yet
    over,       \* history: a do_tick call has returned false, and no try_move call since
    ticks,      \* history: number of do_tick calls that advanced the tick counter
    played,     \* history: number of pieces locked
    shapes,     \* the values of Shape::coor and Shape::dim of the static BLOCK table
    probe,      \* the direct calls of Board::is_filled and Board::wipe: how many, and
                \* the row handed to the last one
    game,       \* main.rs: the Game struct of the terminal program (game in main())
    running,    \* main.rs: runloop has not returned
    fell,       \* history: number of gravity steps that moved the piece in play
    hist        \* main.rs, history: the iterations of runloop, and the calls of
                \* wipe_filled_rows with the complete rows they met

vars == <<board, tetromino, tick, score, paused, panicked, op, arg, ret, path,
          locked, fresh, over, ticks, played, shapes, probe, game, running, fell,
          hist>>

\* the state of the library (game.rs, shape.rs) and the state of main.rs
gameVars == <<board, tetromino, tick, score, paused, panicked, op, arg, ret, path,
              locked, fresh, over, ticks, played, shapes, probe, fell>>
mainVars == <<game, running, hist>>

(***************************************************************************)
(* Program constants                                                       *)
(***************************************************************************)
LEVEL_TICK_INCREASE == 6000
FRAMES_PER_DROP == 30
BOARD_WIDTH == 10
BOARD_HEIGHT == 20
TETROMINO_HEIGHT == 4
TETROMINO_WIDTH == 4
NumKinds == 7
NumOrientations == 4
U8_MAX == 255

\* u64::MAX = 2^64 - 1 written in base LEVEL_TICK_INCREASE, least digit first
U64_MAX == <<3615, 258, 5603, 3592, 2233, 2>>

\* static BLOCK: [u16; 7] = [0x2154, 0x6510, 0x5140, 0x9840, 0x1654, 0x3210, 0x8951]
BLOCK == <<8532, 25872, 20800, 38976, 5716, 12816, 35153>>

(***************************************************************************)
(* Bounds of the model                                                     *)
(***************************************************************************)
\* ticks explored after the starting position
MaxTicks == 3
\* the player's calls (try_move, pause) are explored until more than this many
\* ticks have passed; after that the game is only ticked
MaxMoveTicks == 0
\* ticks explored in a long run of the tick counter
MaxClockTicks == 64
\* direct calls of a Board function explored in a run
MaxProbes == 1
\* the fall of a piece: pieces followed until they are locked
MaxLivePieces == 1
\* the fall of a piece: the kind in play, the I, whose flat orientations are the only
\* pieces that reach y = BOARD_HEIGHT - 1
LiveKind == 5
\* the fall of a piece: the player acts up to this number of advancing ticks
MaxLiveMoveTicks == 1
\* the fall of a piece: ticks from the start to the tick without a gravity step
LiveLead == 5
\* main.rs: iterations of runloop explored in a run
MaxIterations == 2
\* main.rs: the pieces drawn are of the last MaxMainKinds kinds
MaxMainKinds == 1
\* starting positions with a well: the empty columns FirstWell .. FirstWell + MaxWells - 1
MaxWells == 1
FirstWell == 4
\* kinds of the piece in play in a starting position with a well: the last MaxWellKinds
MaxWellKinds == 3
\* kinds of the piece in play in a starting position with a piece on the stack: the
\* last MaxStackKinds
MaxStackKinds == 1

Rows == 0 .. (BOARD_HEIGHT - 1)
Cols == 0 .. (BOARD_WIDTH - 1)
Kinds == 0 .. (NumKinds - 1)
Orientations == 0 .. (NumOrientations - 1)
Moves == {"Left", "Right", "Down", "Rotate"}

Min(a, b) == IF a <= b THEN a ELSE b
Max(a, b) == IF a >= b THEN a ELSE b

\* the value of an expression, given as the set of that one value
Only(S) == CHOOSE v \in S : TRUE

(***************************************************************************)
(* shape.rs                                                                *)
(***************************************************************************)
\* variant: the quarter turn r = 1 is a reflection
rotateMirror(x, y, r) ==
    CASE r = 0 -> <<x, y>>
      [] r = 1 -> <<y, x>>
      [] r = 2 -> <<TETROMINO_WIDTH - 1 - x, TETROMINO_HEIGHT - 1 - y>>
      [] r = 3 -> <<y, TETROMINO_WIDTH - 1 - x>>

\* Shape::rotate
rotate(x, y, r) ==
    CASE r = 0 -> <<x, y>>
      [] r = 1 -> <<TETROMINO_HEIGHT - 1 - y, x>>
      [] r = 2 -> <<TETROMINO_WIDTH - 1 - x, TETROMINO_HEIGHT - 1 - y>>
      [] r = 3 -> <<y, TETROMINO_WIDTH - 1 - x>>

\* the i-th (0-based) packed square of a kind: x = 3 & block >> 4*i+2, y = 3 & block >> 4*i
rawCell(kind, i) ==
    LET block == BLOCK[kind + 1]
    IN  <<(block \div (2 ^ (4 * i + 2))) % 4, (block \div (2 ^ (4 * i))) % 4>>

\* variant: the minima are not subtracted
coorOfRaw(kind, r) ==
    <<rotate(rawCell(kind, 0)[1], rawCell(kind, 0)[2], r),
      rotate(rawCell(kind, 1)[1], rawCell(kind, 1)[2], r),
      rotate(rawCell(kind, 2)[1], rawCell(kind, 2)[2], r),
      rotate(rawCell(kind, 3)[1], rawCell(kind, 3)[2], r)>>

\* Shape::coor, computed as the code does: rotate, track the minima, subtract them
coorOf(kind, r) ==
    LET a == [i \in 1 .. TETROMINO_WIDTH |->
                 rotate(rawCell(kind, i - 1)[1], rawCell(kind, i - 1)[2], r)]
        min_x == Min(Min(Min(Min(U8_MAX, a[1][1]), a[2][1]), a[3][1]), a[4][1])
        min_y == Min(Min(Min(Min(U8_MAX, a[1][2]), a[2][2]), a[3][2]), a[4][2])
    IN  << <<a[1][1] - min_x, a[1][2] - min_y>>, <<a[2][1] - min_x, a[2][2] - min_y>>,
           <<a[3][1] - min_x, a[3][2] - min_y>>, <<a[4][1] - min_x, a[4][2] - min_y>> >>

\* Shape::coor of one kind in its 4 rotations (index r + 1)
coorRow(k) == <<coorOf(k, 0), coorOf(k, 1), coorOf(k, 2), coorOf(k, 3)>>

\* Shape::coor for every (kind, rotation) (index kind + 1)
coorTable ==
    <<coorRow(0), coorRow(1), coorRow(2), coorRow(3), coorRow(4), coorRow(5), coorRow(6)>>

\* Shape::dim: (max x + 1, max y + 1) over a, the value of self.coor(r)
dimOf(a) ==
    LET max_x == Max(Max(Max(Max(0, a[1][1]), a[2][1]), a[3][1]), a[4][1])
        max_y == Max(Max(Max(Max(0, a[1][2]), a[2][2]), a[3][2]), a[4][2])
    IN  <<max_x + 1, max_y + 1>>

dimRow(cr) == <<dimOf(cr[1]), dimOf(cr[2]), dimOf(cr[3]), dimOf(cr[4])>>

\* Shape::dim for every (kind, rotation) of the coor table ct
dimTable(ct) ==
    <<dimRow(ct[1]), dimRow(ct[2]), dimRow(ct[3]), dimRow(ct[4]), dimRow(ct[5]),
      dimRow(ct[6]), dimRow(ct[7])>>

\* the two functions are pure and BLOCK is static: their values are computed once
InitShapes == \E ct \in {coorTable} : shapes = [coor |-> ct, dim |-> dimTable(ct)]

coor(kind, r) == shapes.coor[kind + 1][r + 1]

dim(kind, r) == shapes.dim[kind + 1][r + 1]

width(kind, r) == dim(kind, r)[1]
height(kind, r) == dim(kind, r)[2]

(***************************************************************************)
(* game.rs: Tetromino, Board                                               *)
(***************************************************************************)
\* variant: the range of x is one too wide
TetrominoNewWide ==
    { [x |-> x, y |-> 0, orientation |-> o, shape |-> k] :
        <<o, k, x>> \in { t \in Orientations \X Kinds \X (0 .. BOARD_WIDTH) :
                            t[3] < BOARD_WIDTH - width(t[2], t[1]) + 2 } }

\* Tetromino::new: every piece the random source can produce
TetrominoNew ==
    { [x |-> x, y |-> 0, orientation |-> o, shape |-> k] :
        <<o, k, x>> \in { t \in Orientations \X Kinds \X (0 .. BOARD_WIDTH) :
                            t[3] < BOARD_WIDTH - width(t[2], t[1]) + 1 } }

\* Board::default
EmptyBoard == [y \in Rows |-> [x \in Cols |-> 0]]

\* Board::get
get(b, x, y) == b[y][x]

\* Board::is_filled
is_filled(b, row) == \A x \in Cols : b[row][x] # 0

\* variant: the rows are copied in ascending order, which hands row 0 down to each
wipeForward(b, row) ==
    [y \in Rows |-> IF y = 0 THEN [x \in Cols |-> 0]
                    ELSE IF y <= row THEN b[0]
                    ELSE b[y]]

\* Board::wipe, the loop at lines 57-60 from i on down: board[i + 1] = board[i] for
\* i = row - 1 .. 0, then line 61: row 0 is filled with 0
RECURSIVE wipeFrom(_, _)
wipeFrom(b, i) ==
    IF i < 0 THEN [b EXCEPT ![0] = [x \in Cols |-> 0]]
    ELSE Only({ wipeFrom(b1, i - 1) : b1 \in {[b EXCEPT ![i + 1] = b[i]]} })

\* Board::wipe
wipe(b, row) == wipeFrom(b, row - 1)

\* the board cells of a piece: shape.coor(orientation) offset by (x, y)
Cells(t) == { <<coor(t.shape, t.orientation)[i][1] + t.x,
                coor(t.shape, t.orientation)[i][2] + t.y>> : i \in 1 .. 4 }

InBoard(c) == c[1] \in Cols /\ c[2] \in Rows

\* Board::set
set(b, x, y, v) == [b EXCEPT ![y][x] = v]

\* Game::draw_tetromino: Board::set of each cell of the piece to v
draw_tetromino(b, t, v) ==
    LET a == coor(t.shape, t.orientation)
    IN  set(set(set(set(b, a[1][1] + t.x, a[1][2] + t.y, v),
                    a[2][1] + t.x, a[2][2] + t.y, v),
                a[3][1] + t.x, a[3][2] + t.y, v),
            a[4][1] + t.x, a[4][2] + t.y, v)

\* Board::set indexes out of range for some cell of the piece
drawPanics(t) == \E c \in Cells(t) : ~InBoard(c)

\* variant: the paint value is the kind itself
set_tetrominoKind(b, t) == draw_tetromino(b, t, t.shape)

set_tetromino(b, t) == draw_tetromino(b, t, t.shape + 1)

\* variant: the erase is forgotten
clear_tetrominoNoErase(b, t) == b

clear_tetromino(b, t) == draw_tetromino(b, t, 0)

(***************************************************************************)
(* game.rs: the tick counter                                               *)
(***************************************************************************)
TickZero == <<0, 0, 0, 0, 0, 0>>

RECURSIVE incDigits(_, _)
incDigits(t, i) ==
    IF i > Len(t) THEN t
    ELSE IF t[i] + 1 < LEVEL_TICK_INCREASE THEN [t EXCEPT ![i] = t[i] + 1]
    ELSE incDigits([t EXCEPT ![i] = 0], i + 1)

\* variant: the counter wraps whenever its lowest digit does
tickNextShort(t) ==
    LET n == incDigits(t, 1) IN IF n[1] = 0 THEN TickZero ELSE n

\* (self.tick + 1) % u64::MAX
tickNext(t) ==
    LET n == incDigits(t, 1) IN IF n = U64_MAX THEN TickZero ELSE n

\* self.tick % FRAMES_PER_DROP (LEVEL_TICK_INCREASE is a multiple of FRAMES_PER_DROP)
tickModDrop(t) == t[1] % FRAMES_PER_DROP

\* variant: the comparison is strict
gravityStrict(t) ==
    \/ \E i \in 3 .. Len(t) : t[i] > 0
    \/ tickModDrop(t) < t[2]

\* self.tick % FRAMES_PER_DROP <= self.tick / LEVEL_TICK_INCREASE
gravity(t) ==
    \/ \E i \in 3 .. Len(t) : t[i] > 0
    \/ tickModDrop(t) <= t[2]

\* Game::level: 1 + self.tick / LEVEL_TICK_INCREASE, as digits like the tick
level(t) == incDigits(<<t[2], t[3], t[4], t[5], t[6], 0>>, 1)

\* a tick value below LEVEL_TICK_INCREASE^2 as digits
TickOf(n) == <<n % LEVEL_TICK_INCREASE, n \div LEVEL_TICK_INCREASE, 0, 0, 0, 0>>

(***************************************************************************)
(* game.rs: Game                                                           *)
(***************************************************************************)
\* Game::try_move, lines 130-153: the candidate (x, y, r) or an early return
candidateLift(t, m) ==
    CASE m = "Left" ->
           [ok |-> t.x > 0, x |-> Max(t.x - 1, 0), y |-> t.y, r |-> t.orientation]
      [] m = "Right" ->
           IF t.x + width(t.shape, t.orientation) < BOARD_WIDTH
           THEN [ok |-> TRUE, x |-> t.x + 1, y |-> t.y, r |-> t.orientation]
           ELSE [ok |-> FALSE, x |-> t.x, y |-> t.y, r |-> t.orientation]
      [] m = "Down" ->
           [ok |-> TRUE, x |-> t.x, y |-> t.y + 1, r |-> t.orientation]
      [] m = "Rotate" ->
           [ok |-> TRUE, x |-> t.x, y |-> Max(t.y - 1, 0), r |-> t.orientation]

candidate(t, m) ==
    LET no == [ok |-> FALSE, x |-> t.x, y |-> t.y, r |-> t.orientation]
    IN  CASE m = "Left" ->
               IF t.x > 0
               THEN [ok |-> TRUE, x |-> t.x - 1, y |-> t.y, r |-> t.orientation]
               ELSE no
          [] m = "Right" ->
               IF t.x + width(t.shape, t.orientation) < BOARD_WIDTH
               THEN [ok |-> TRUE, x |-> t.x + 1, y |-> t.y, r |-> t.orientation]
               ELSE no
          [] m = "Down" ->
               [ok |-> TRUE, x |-> t.x, y |-> t.y + 1, r |-> t.orientation]
          [] m = "Rotate" ->
               LET new_r == (t.orientation + 1) % 4
                   w == width(t.shape, new_r)
                   new_x == IF t.x + w > BOARD_WIDTH THEN BOARD_WIDTH - w ELSE t.x
               IN  [ok |-> TRUE, x |-> new_x, y |-> t.y, r |-> new_r]

\* Game::try_move, lines 160-162: the collision test on board b
hits(b, kind, x, y, r) ==
    \E i \in 1 .. 4 :
        LET sx == coor(kind, r)[i][1]
            sy == coor(kind, r)[i][2]
        IN  \/ y + sy >= BOARD_HEIGHT
            \/ x + sx >= BOARD_WIDTH
            \/ get(b, x + sx, y + sy) # 0

\* Game::try_move, lines 159-173, for the candidate c: erase the piece, test the
\* candidate, repaint the piece, and on no hit erase, commit and paint
tryCandidate(b, t, c) ==
    Only({ Only({ IF hits(b1, t.shape, c.x, c.y, c.r)
                  THEN [ret |-> FALSE, board |-> b2, tetromino |-> t, path |-> "hit",
                        panic |-> FALSE]
                  ELSE Only({ [ret |-> TRUE,
                               board |-> set_tetromino(clear_tetromino(b2, t), t2),
                               tetromino |-> t2, path |-> "moved", panic |-> FALSE] :
                              t2 \in {[t EXCEPT !.x = c.x, !.y = c.y,
                                                !.orientation = c.r]} }) :
                  b2 \in {set_tetromino(b1, t)} }) :
           b1 \in {clear_tetromino(b, t)} })

\* Game::try_move: the value returned, the board and piece left, the branch taken
try_move(b, t, m) ==
    Only({ IF ~c.ok
           THEN [ret |-> FALSE, board |-> b, tetromino |-> t, path |-> "edge",
                 panic |-> FALSE]
           ELSE IF c.y + height(t.shape, c.r) > BOARD_HEIGHT
           THEN [ret |-> FALSE, board |-> b, tetromino |-> t, path |-> "floor",
                 panic |-> FALSE]
           ELSE IF drawPanics(t)
           THEN [ret |-> FALSE, board |-> b, tetromino |-> t, path |-> "panic",
                 panic |-> TRUE]
           ELSE tryCandidate(b, t, c) :
           c \in {candidate(t, m)} })

\* variant: the rows of the span are visited bottom up
RECURSIVE wipeRowsBottomUp(_, _, _, _)
wipeRowsBottomUp(b, s, row, end) ==
    IF row >= end THEN [board |-> b, score |-> s]
    ELSE IF is_filled(b, end - 1)
    THEN Only({ wipeRowsBottomUp(b1, s + 1, row, end - 1) : b1 \in {wipe(b, end - 1)} })
    ELSE wipeRowsBottomUp(b, s, row, end - 1)

\* variant: the visit of the span ends at the first complete row
RECURSIVE wipeRowsOnce(_, _, _, _)
wipeRowsOnce(b, s, row, end) ==
    IF row >= end THEN [board |-> b, score |-> s]
    ELSE IF is_filled(b, row)
    THEN [board |-> wipe(b, row), score |-> s + 1]
    ELSE wipeRowsOnce(b, s, row + 1, end)

\* Game::wipe_filled_rows, lines 117-123: the rows of the piece's span, top down
RECURSIVE wipeRows(_, _, _, _)
wipeRows(b, s, row, end) ==
    IF row >= end THEN [board |-> b, score |-> s]
    ELSE IF is_filled(b, row)
    THEN Only({ wipeRows(b1, s + 1, row + 1, end) : b1 \in {wipe(b, row)} })
    ELSE wipeRows(b, s, row + 1, end)

\* Game::wipe_filled_rows: the board and score left, and the piece drawn at line 124
wipe_filled_rows(b, t, s, nt) ==
    Only({ [board |-> w.board, score |-> w.score, tetromino |-> nt] :
           w \in {wipeRows(b, s, t.y, t.y + height(t.shape, t.orientation))} })

\* no direct call of a Board function has been made
NoProbe == [n |-> 0, row |-> 0]

\* main.rs, the struct literal of main() (lines 358-370)
main_Game0 ==
    [x |-> 0, y |-> 0, r |-> 0, pr |-> 0, px |-> 0, py |-> 0, p |-> 0,
     tick |-> TickZero, score |-> 0, board |-> EmptyBoard, paused |-> FALSE]

\* no call of wipe_filled_rows of main.rs has been made
NoHist == [iterations |-> 0, calls |-> 0, rows |-> 0,
           before |-> main_Game0, after |-> main_Game0]

\* the terminal program is not running
MainIdle == game = main_Game0 /\ running = FALSE /\ hist = NoHist

\* the history part of a starting position
StartHistory ==
    /\ op = "new" /\ arg = "-" /\ ret = TRUE /\ path = "new"
    /\ locked = board
    /\ fresh = TRUE
    /\ over = FALSE
    /\ ticks = 0
    /\ played = 0
    /\ fell = 0
    /\ probe = NoProbe

\* Game::default: the new game
InitNew ==
    /\ InitShapes
    /\ board = EmptyBoard
    /\ tetromino \in TetrominoNew
    /\ tick = TickZero
    /\ score = 0
    /\ paused = FALSE
    /\ panicked = FALSE
    /\ StartHistory

(***************************************************************************)
(* A position deep in a game.  The player has dropped four vertical I      *)
(* pieces (kind 5, orientation 0) into every column but column g: each     *)
(* falls straight down its empty column and locks on the floor or on the   *)
(* I below it, at y = 16, 12, 8, 4 (all > 0), and no row is ever complete  *)
(* because column g stays empty, so the score is 0.  The 36 locks take     *)
(* between 1 and 17 gravity steps each; the player lets them take 201 in   *)
(* all, so the last lock is the gravity step of tick 6001, and 28 more     *)
(* do_tick calls (none a gravity step) leave the piece spawned by that     *)
(* lock untouched at tick 6029.                                            *)
(***************************************************************************)
\* the n-th (0-based) of these pieces: the I at level n % 4 of column n \div 4
WellPiece(n) ==
    [x |-> n \div 4, y |-> BOARD_HEIGHT - TETROMINO_HEIGHT * (1 + (n % 4)),
     orientation |-> 0, shape |-> 5]

\* the board these locks leave: the paint of every piece outside column g
WellBoard(g) ==
    [y \in Rows |-> [x \in Cols |->
        IF \E n \in 0 .. (4 * BOARD_WIDTH - 1) :
               WellPiece(n).x # g /\ <<x, y>> \in Cells(WellPiece(n))
        THEN WellPiece((4 * x)).shape + 1
        ELSE 0]]

WellTick == TickOf(LEVEL_TICK_INCREASE + FRAMES_PER_DROP - 1)

WellColumns == FirstWell .. (FirstWell + MaxWells - 1)

InitWell ==
    /\ InitShapes
    /\ \E g \in WellColumns : board = WellBoard(g)
    /\ tetromino \in { t \in TetrominoNew : t.shape >= NumKinds - MaxWellKinds }
    /\ tick = WellTick
    /\ score = 0
    /\ paused = FALSE
    /\ panicked = FALSE
    /\ StartHistory

(***************************************************************************)
(* The position one piece later.  In the position above the piece in play  *)
(* is a T (kind 4, orientation 0) at x = 0; the player moves it Down once, *)
(* to y = 1, where it rests on the stack (the cell below its foot, column  *)
(* 1 of row 4, is filled).  The do_tick of tick 6030 is a gravity step:    *)
(* Down fails at y = 1 > 0, the T is locked in rows 1 .. 3, none of which  *)
(* is complete, and Tetromino::new draws the piece now in play.            *)
(***************************************************************************)
StackPiece == [x |-> 0, y |-> 1, orientation |-> 0, shape |-> 4]

StackBoard(g) == set_tetromino(WellBoard(g), StackPiece)

StackTick == tickNext(WellTick)

InitStack ==
    /\ InitShapes
    /\ \E g \in WellColumns : board = StackBoard(g)
    /\ tetromino \in { t \in TetrominoNew : t.shape >= NumKinds - MaxStackKinds }
    /\ tick = StackTick
    /\ score = 0
    /\ paused = FALSE
    /\ panicked = FALSE
    /\ StartHistory

Init == (InitNew \/ InitWell \/ InitStack) /\ MainIdle

\* a call of Game::try_move(m)
TryMoveCall(m) ==
    /\ \E r \in {try_move(board, tetromino, m)} :
           /\ board' = r.board
           /\ tetromino' = r.tetromino
           /\ panicked' = r.panic
           /\ ret' = r.ret
           /\ path' = r.path
           /\ fresh' = (fresh /\ r.path \in {"edge", "floor", "panic"})
    /\ op' = "try_move"
    /\ arg' = m
    /\ over' = FALSE
    /\ UNCHANGED <<tick, score, paused, locked, ticks, played, shapes, probe, fell>>
    /\ UNCHANGED mainVars

\* a call of Game::try_move(m) by the player
TryMove(m) ==
    /\ ~panicked
    /\ ticks <= MaxMoveTicks
    /\ TryMoveCall(m)

\* variant: the piece is locked and replaced before y == 0 is tested
do_tickLockFirst(b, t, tk, s, p, nt) ==
    IF p
    THEN [ret |-> TRUE, board |-> b, tetromino |-> t, tick |-> tk, score |-> s,
          path |-> "paused", panic |-> FALSE]
    ELSE Only({
        IF ~gravity(t1)
        THEN [ret |-> TRUE, board |-> b, tetromino |-> t, tick |-> t1, score |-> s,
              path |-> "idle", panic |-> FALSE]
        ELSE Only({
            IF r.ret
            THEN [ret |-> TRUE, board |-> r.board, tetromino |-> r.tetromino,
                  tick |-> t1, score |-> s, path |-> "moved", panic |-> FALSE]
            ELSE Only({ [ret |-> nt.y # 0, board |-> w.board, tetromino |-> nt, tick |-> t1,
                         score |-> w.score, path |-> "gameover", panic |-> FALSE] :
                        w \in {wipe_filled_rows(r.board, r.tetromino, s, nt)} }) :
            r \in {try_move(b, t, "Down")} }) :
        t1 \in {tickNext(tk)} })

\* variant: the test of y == 0 is missing, a piece stuck at the top is locked
do_tickNoTopCheck(b, t, tk, s, p, nt) ==
    IF p
    THEN [ret |-> TRUE, board |-> b, tetromino |-> t, tick |-> tk, score |-> s,
          path |-> "paused", panic |-> FALSE]
    ELSE Only({
        IF ~gravity(t1)
        THEN [ret |-> TRUE, board |-> b, tetromino |-> t, tick |-> t1, score |-> s,
              path |-> "idle", panic |-> FALSE]
        ELSE Only({
            IF r.ret
            THEN [ret |-> TRUE, board |-> r.board, tetromino |-> r.tetromino,
                  tick |-> t1, score |-> s, path |-> "moved", panic |-> FALSE]
            ELSE Only({ [ret |-> TRUE, board |-> w.board, tetromino |-> nt, tick |-> t1,
                         score |-> w.score, path |-> "lock", panic |-> FALSE] :
                        w \in {wipe_filled_rows(r.board, r.tetromino, s, nt)} }) :
            r \in {try_move(b, t, "Down")} }) :
        t1 \in {tickNext(tk)} })

\* variant: the tick counter advances while the game is paused
do_tickPausedCounts(b, t, tk, s, p, nt) ==
    [ret |-> TRUE, board |-> b, tetromino |-> t, tick |-> tickNext(tk), score |-> s,
     path |-> IF p THEN "paused" ELSE "idle", panic |-> FALSE]

\* Game::do_tick: the value returned, the state left and the branch taken;
\* nt is the piece Tetromino::new draws at line 188
do_tick(b, t, tk, s, p, nt) ==
    IF p
    THEN [ret |-> TRUE, board |-> b, tetromino |-> t, tick |-> tk, score |-> s,
          path |-> "paused", panic |-> FALSE]
    ELSE Only({
        IF ~gravity(t1)
        THEN [ret |-> TRUE, board |-> b, tetromino |-> t, tick |-> t1, score |-> s,
              path |-> "idle", panic |-> FALSE]
        ELSE Only({
            IF r.panic
            THEN [ret |-> FALSE, board |-> b, tetromino |-> t, tick |-> t1,
                  score |-> s, path |-> "panic", panic |-> TRUE]
            ELSE IF r.ret
            THEN [ret |-> TRUE, board |-> r.board, tetromino |-> r.tetromino,
                  tick |-> t1, score |-> s, path |-> "moved", panic |-> FALSE]
            ELSE IF r.tetromino.y = 0
            THEN [ret |-> FALSE, board |-> r.board, tetromino |-> r.tetromino,
                  tick |-> t1, score |-> s, path |-> "gameover", panic |-> FALSE]
            ELSE Only({ [ret |-> TRUE, board |-> w.board, tetromino |-> nt, tick |-> t1,
                         score |-> w.score, path |-> "lock", panic |-> FALSE] :
                        w \in {wipe_filled_rows(r.board, r.tetromino, s, nt)} }) :
            r \in {try_move(b, t, "Down")} }) :
        t1 \in {tickNext(tk)} })

\* stands for the piece of line 188 in a call that does not reach that line
NoDraw == [x |-> 0, y |-> 0, orientation |-> 0, shape |-> 0]

\* the pieces line 188 can draw in a call that ends as d0 does: the draw happens on
\* the lock path only
Draws(d0) == IF d0.path = "lock" THEN TetrominoNew ELSE {NoDraw}

\* Game::do_tick() is called: the state it leaves and the history of the call
DoTickCall ==
    /\ \E d0 \in {do_tick(board, tetromino, tick, score, paused, NoDraw)} :
       \E nt \in Draws(d0) :
       \E d \in {IF nt = NoDraw THEN d0
                 ELSE do_tick(board, tetromino, tick, score, paused, nt)} :
              /\ board' = d.board
              /\ tetromino' = d.tetromino
              /\ tick' = d.tick
              /\ score' = d.score
              /\ panicked' = d.panic
              /\ ret' = d.ret
              /\ path' = d.path
              /\ locked' = IF d.path = "lock" THEN d.board ELSE locked
              /\ fresh' = IF d.path = "lock" THEN TRUE
                          ELSE IF d.path \in {"moved", "gameover"} THEN FALSE
                          ELSE fresh
              /\ over' = (over \/ ~d.ret)
              /\ played' = IF d.path = "lock" THEN played + 1 ELSE played
              /\ fell' = IF d.path = "lock" THEN 0
                         ELSE IF d.path = "moved" THEN fell + 1
                         ELSE fell
    /\ op' = "do_tick"
    /\ arg' = "-"
    /\ ticks' = IF paused THEN ticks ELSE ticks + 1
    /\ UNCHANGED <<paused, shapes, probe>>
    /\ UNCHANGED mainVars

\* a call of Game::do_tick()
DoTick ==
    /\ ~panicked
    /\ ticks < MaxTicks
    /\ DoTickCall

\* the driver writes the public field: game.paused = !game.paused
PauseCall ==
    /\ paused' = ~paused
    /\ op' = "pause"
    /\ arg' = "-"
    /\ ret' = TRUE
    /\ path' = "pause"
    /\ UNCHANGED <<board, tetromino, tick, score, panicked, locked, fresh, over,
                   ticks, played, shapes, probe, fell>>
    /\ UNCHANGED mainVars

\* the driver toggles the pause
Pause ==
    /\ ~panicked
    /\ ticks <= MaxMoveTicks
    /\ PauseCall

Next ==
    \/ \E m \in Moves : TryMove(m)
    \/ DoTick
    \/ Pause

Spec == Init /\ [][Next]_vars

(***************************************************************************)
(* Long runs of the tick counter.  In the position with a well the piece   *)
(* in play can be a vertical I (kind 5, orientation 0) at x = 0: it stands *)
(* on the stack, so the first gravity step fails at y = 0, do_tick paints  *)
(* it and returns false, and from then on do_tick changes nothing but the  *)
(* tick counter, however often the driver goes on calling it.  The well    *)
(* takes 36 locks, each at a gravity step of its own, and the player can   *)
(* bring every piece down with try_move(Down), so the game can be stuck    *)
(* this way at any tick from a few thousand on, and then be ticked through *)
(* every later value of the counter.                                       *)
(***************************************************************************)
ClockPiece == [x |-> 0, y |-> 0, orientation |-> 0, shape |-> 5]

\* tick div LEVEL_TICK_INCREASE reaches these values in the runs explored
ClockLevels == {1, 2, FRAMES_PER_DROP - 1, FRAMES_PER_DROP, FRAMES_PER_DROP + 1}

\* the runs start one aligned block and one tick before the level changes, or
\* before the counter wraps
ClockStarts ==
    { TickOf(LEVEL_TICK_INCREASE * q - FRAMES_PER_DROP - 1) : q \in ClockLevels }
      \cup { [U64_MAX EXCEPT ![1] = U64_MAX[1] - FRAMES_PER_DROP - 2] }

InitClock ==
    /\ InitShapes
    /\ \E g \in WellColumns :
           /\ board = set_tetromino(WellBoard(g), ClockPiece)
           /\ locked = WellBoard(g)
    /\ tetromino = ClockPiece
    /\ tick \in ClockStarts
    /\ score = 0
    /\ paused = FALSE
    /\ panicked = FALSE
    /\ op = "do_tick" /\ arg = "-" /\ ret = FALSE /\ path = "gameover"
    /\ fresh = FALSE
    /\ over = TRUE
    /\ ticks = 1
    /\ played = 0
    /\ fell = 0
    /\ probe = NoProbe
    /\ MainIdle

\* a call of Game::do_tick() on the game stuck in this way
ClockTick ==
    /\ ~panicked
    /\ over
    /\ tetromino = ClockPiece
    /\ ticks < MaxClockTicks
    /\ DoTickCall

(***************************************************************************)
(* The pieces alone: a new game in which the player moves and rotates the  *)
(* first piece and the driver never ticks.                                 *)
(***************************************************************************)
NextShape == \E m \in Moves : TryMove(m)

InitShape == InitNew /\ MainIdle

SpecShape == InitShape /\ [][NextShape]_vars

(***************************************************************************)
(* The Board alone.  In the position with a well the I piece is in play;   *)
(* the player moves it, down the well too, where it completes rows, and    *)
(* then Board::is_filled and Board::wipe are called directly, for any row. *)
(***************************************************************************)
InitBoard == InitWell /\ tetromino.shape = 5 /\ MainIdle

\* a call of Board::is_filled(row)
BoardIsFilled(row) ==
    /\ probe.n < MaxProbes
    /\ ret' = is_filled(board, row)
    /\ op' = "is_filled"
    /\ arg' = "-"
    /\ path' = "is_filled"
    /\ probe' = [n |-> probe.n + 1, row |-> row]
    /\ UNCHANGED <<board, tetromino, tick, score, paused, panicked, locked, fresh,
                   over, ticks, played, shapes, fell>>
    /\ UNCHANGED mainVars

\* a call of Board::wipe(row)
BoardWipe(row) ==
    /\ probe.n < MaxProbes
    /\ board' = wipe(board, row)
    /\ op' = "wipe"
    /\ arg' = "-"
    /\ ret' = TRUE
    /\ path' = "wipe"
    /\ probe' = [n |-> probe.n + 1, row |-> row]
    /\ UNCHANGED <<tetromino, tick, score, paused, panicked, locked, fresh, over,
                   ticks, played, shapes, fell>>
    /\ UNCHANGED mainVars

NextBoard ==
    \/ probe.n = 0 /\ \E m \in Moves : TryMove(m)
    \/ \E row \in Rows : BoardIsFilled(row)
    \/ \E row \in Rows : BoardWipe(row)

SpecBoard == InitBoard /\ [][NextBoard]_vars

InitLong == Init \/ InitClock

NextLong == Next \/ ClockTick

SpecLong == InitLong /\ [][NextLong]_vars

(***************************************************************************)
(* The fall of one piece.  The driver keeps calling do_tick until the      *)
(* piece in play is locked or do_tick returns false; the counter starts at *)
(* level 29, where every tick but one in FRAMES_PER_DROP is a gravity      *)
(* step.  The player moves the piece and toggles the pause during the      *)
(* first ticks.  The driver loop calls do_tick in every iteration, which   *)
(* is the weak fairness of LiveTick, WF_vars(LiveTick).  It is written out *)
(* as "LiveTick is disabled infinitely often or taken infinitely often",   *)
(* with the enabling condition of a LiveTick step that changes the state   *)
(* stated directly: a do_tick call on a paused game that follows a do_tick *)
(* call changes nothing.                                                   *)
(***************************************************************************)
LiveStart ==
    TickOf(LEVEL_TICK_INCREASE * (FRAMES_PER_DROP - 2) + FRAMES_PER_DROP - LiveLead)

InitLive ==
    /\ InitShapes
    /\ board \in {EmptyBoard} \cup {StackBoard(w) : w \in WellColumns}
    /\ tetromino \in { t \in TetrominoNew : t.shape = LiveKind }
    /\ tick = LiveStart
    /\ score = 0
    /\ paused = FALSE
    /\ panicked = FALSE
    /\ StartHistory
    /\ MainIdle

\* the fall has ended: the piece was locked and replaced, or do_tick returned false
LiveDone == played >= MaxLivePieces \/ over

LiveTick ==
    /\ ~panicked
    /\ ~LiveDone
    /\ DoTickCall

LiveMove(m) ==
    /\ ~panicked
    /\ ~LiveDone
    /\ ticks <= MaxLiveMoveTicks
    /\ TryMoveCall(m)

LivePause ==
    /\ ~panicked
    /\ ~LiveDone
    /\ ticks <= MaxLiveMoveTicks
    /\ PauseCall

NextLive ==
    \/ LiveTick
    \/ \E m \in Moves : LiveMove(m)
    \/ LivePause

\* no LiveTick step can change the state
TickDisabled == panicked \/ LiveDone \/ (paused /\ op = "do_tick")

\* WF_vars(LiveTick)
LiveFair == []<>TickDisabled \/ []<><<op' = "do_tick">>_vars

SpecLive == InitLive /\ [][NextLive]_vars /\ LiveFair

(***************************************************************************)
(* The terminal program, main.rs.  It does not use game.rs: it has its own *)
(* Game struct, its own table of the shapes (each of the 4 orientations    *)
(* stored, 16 bits each) and its own copy of the game logic.  One action   *)
(* is one iteration of runloop: do_tick, the key read if there is one,     *)
(* update_piece.                                                           *)
(***************************************************************************)
\* BLOCK of main.rs (lines 14-22): each u64 as its 4 words of 16 bits, word r first
main_BLOCK ==
    << <<38208, 8532, 38208, 8532>>,
       <<33873, 25872, 33873, 25872>>,
       <<20800, 20800, 20800, 20800>>,
       <<9812, 38160, 8512, 38976>>,
       <<18769, 21008, 22592, 5716>>,
       <<51264, 12816, 51264, 12816>>,
       <<25104, 6208, 25920, 35153>> >>

\* num: 3 & (BLOCK[p] >> (r * 16 + i)); i <= 14, so the 2 bits are in word r
num(p, r, i) == (main_BLOCK[p + 1][r + 1] \div (2 ^ i)) % 4

\* width of main.rs: the fold yields (max(0, v..), min(9, v..)) of the 4 x offsets
main_width(p, r) ==
    LET vs == {num(p, r, i * 4 + 2) : i \in 0 .. 3} \cup {0}
        ws == {num(p, r, i * 4 + 2) : i \in 0 .. 3} \cup {9}
    IN  (CHOOSE a \in vs : \A b \in vs : b <= a) - (CHOOSE a \in ws : \A b \in ws : a <= b)

\* height of main.rs
main_height(p, r) ==
    LET vs == {num(p, r, i * 4) : i \in 0 .. 3} \cup {0}
        ws == {num(p, r, i * 4) : i \in 0 .. 3} \cup {9}
    IN  (CHOOSE a \in vs : \A b \in vs : b <= a) - (CHOOSE a \in ws : \A b \in ws : a <= b)

\* the values new_tetramino can draw for (p, r, x), of the kinds explored
main_Draws ==
    { d \in [p : (NumKinds - MaxMainKinds) .. (NumKinds - 1), r : 0 .. 3, x : 0 .. 9] :
        d.x < 10 - main_width(d.p, d.r) }

\* no draw is made
NoMainDraw == [p |-> 0, r |-> 0, x |-> 0]

\* new_tetramino, with the values nt drawn
new_tetramino(gm, nt) ==
    [gm EXCEPT !.p = nt.p, !.r = nt.r, !.x = nt.x, !.y = 0,
               !.py = 0, !.pr = nt.r, !.px = nt.x]

\* set_piece: the 4 cells of piece g.p in orientation r at (x, y) are set to v
set_piece(gm, x, y, r, v) ==
    Only({ Only({ [g0 EXCEPT !.board =
                      [yy \in Rows |-> [xx \in Cols |->
                          IF <<yy, xx>> \in cs THEN v ELSE g0.board[yy][xx]]]]
                  : cs \in {{ <<num(g0.p, r, i * 4) + y, num(g0.p, r, i * 4 + 2) + x>>
                              : i \in 0 .. 3 }} })
           : g0 \in {gm} })

\* update_piece
update_piece(gm) ==
    Only({ Only({ set_piece(g2, g2.x, g2.y, g2.r, g2.p + 1)
                  : g2 \in {[g1 EXCEPT !.px = g1.x, !.py = g1.y, !.pr = g1.r]} })
           : g1 \in {set_piece(gm, gm.px, gm.py, gm.pr, 0)} })

\* the product of the cells j .. 9 of a row, as u32 (it is at most 7^10 < 2^32)
RECURSIVE main_product(_, _)
main_product(cells, j) ==
    IF j >= 10 THEN 1 ELSE cells[j] * main_product(cells, j + 1)

\* wipe_filled_rows, the loop of lines 196-205 from i on down: row i is copied to
\* row i + 1, row 0 is zeroed and score is incremented, for i = row - 1 .. 1
RECURSIVE main_collapse(_, _)
main_collapse(gm, i) ==
    IF i < 1 THEN gm
    ELSE Only({ main_collapse(g1, i - 1)
                : g1 \in {[gm EXCEPT !.board[i + 1] = gm.board[i],
                                     !.board[0] = [x \in Cols |-> 0],
                                     !.score = @ + 1]} })

\* wipe_filled_rows, the loop of line 188 from row on, up to row last
RECURSIVE main_wipeRows(_, _, _)
main_wipeRows(gm, row, last) ==
    IF row > last THEN gm
    ELSE IF main_product(gm.board[row], 0) > 0
    THEN Only({ main_wipeRows(g1, row + 1, last) : g1 \in {main_collapse(gm, row - 1)} })
    ELSE main_wipeRows(gm, row + 1, last)

\* wipe_filled_rows of main.rs
main_wipe_filled_rows(gm) ==
    main_wipeRows(gm, gm.y, gm.y + main_height(gm.p, gm.r))

\* the rows of the span of the piece that are complete
main_filledRows(gm) ==
    { row \in gm.y .. (gm.y + main_height(gm.p, gm.r)) :
        \A x \in Cols : gm.board[row][x] # 0 }

\* the call of wipe_filled_rows that ends a piece (lines 239 and 285) and its history;
\* the call of new_tetramino that follows it is left to be made
main_lock(st) ==
    Only({ [st EXCEPT !.g = g1,
                      !.spawn = TRUE,
                      !.h = [@ EXCEPT !.calls = @ + 1,
                                      !.rows = @ + Cardinality(main_filledRows(st.g)),
                                      !.before = st.g,
                                      !.after = g1]]
           : g1 \in {main_wipe_filled_rows(st.g)} })

\* check_hit: the result and the Game it leaves
check_hit(gm, x, y, r) ==
    IF y + main_height(gm.p, r) > BOARD_HEIGHT - 1
    THEN [hit |-> TRUE, g |-> gm]
    ELSE Only({ [hit |-> \E i \in 0 .. 3 :
                            g1.board[y + num(g1.p, r, i * 4)]
                                    [x + num(g1.p, r, i * 4 + 2)] # 0,
                 g |-> set_piece(g1, g1.px, g1.py, g1.pr, g1.p + 1)]
                : g1 \in {set_piece(gm, gm.px, gm.py, gm.pr, 0)} })

\* do_tick of main.rs on st = [g, h, spawn]: the state it leaves and the value it
\* returns; spawn: it ends with the call of new_tetramino (line 240), left to be made.
\* The tick arithmetic is that of Game::do_tick.
main_do_tick(st) ==
    IF st.g.paused THEN [st |-> st, ret |-> TRUE]
    ELSE Only({
        IF ~gravity(g1.tick) THEN [st |-> [st EXCEPT !.g = g1], ret |-> TRUE]
        ELSE Only({
            IF c.hit
            THEN IF c.g.y = 0
                 THEN [st |-> [st EXCEPT !.g = c.g], ret |-> FALSE]
                 ELSE Only({ [st |-> l, ret |-> TRUE]
                             : l \in {main_lock([st EXCEPT !.g = c.g])} })
            ELSE Only({ [st |-> [st EXCEPT !.g = g2], ret |-> TRUE]
                        : g2 \in {update_piece([c.g EXCEPT !.y = @ + 1])} })
            : c \in {check_hit(g1, g1.x, g1.y + 1, g1.r)} })
        : g1 \in {[st.g EXCEPT !.tick = tickNext(@)]} })

\* the Down key (lines 281-286), the loop from the Game gm on
RECURSIVE main_drop(_)
main_drop(gm) ==
    Only({ IF c.hit THEN c.g
           ELSE Only({ main_drop(g2) : g2 \in {update_piece([c.g EXCEPT !.y = @ + 1])} })
           : c \in {check_hit(gm, gm.x, gm.y + 1, gm.r)} })

\* the Up key (lines 291-298)
main_rotate(gm) ==
    Only({ Only({ IF c.hit THEN [c.g EXCEPT !.x = c.g.px, !.r = c.g.pr] ELSE c.g
                  : c \in {check_hit(g1, g1.x, g1.y, g1.r)} })
           : g1 \in {Only({ [gm EXCEPT !.r = r2,
                                       !.x = IF @ + main_width(gm.p, r2) > 9
                                             THEN 9 - main_width(gm.p, r2) ELSE @]
                            : r2 \in {(gm.r + 1) % 4} })} })

\* the keys runloop reads; "none": no event, or one that runloop ignores
Keys == {"none", "q", "space", "left", "right", "down", "up"}

\* the match of lines 252-301 for a key other than q; spawn: it ends with the call
\* of new_tetramino (line 286), left to be made
main_key(st, key) ==
    CASE key = "space" -> [st EXCEPT !.g.paused = ~@]
      [] key = "left" ->
           IF st.g.x > 0
           THEN Only({ [st EXCEPT !.g = IF c.hit THEN c.g ELSE [c.g EXCEPT !.x = @ - 1]]
                       : c \in {check_hit(st.g, st.g.x - 1, st.g.y, st.g.r)} })
           ELSE st
      [] key = "right" ->
           IF st.g.x + main_width(st.g.p, st.g.r) < 9
           THEN Only({ [st EXCEPT !.g = IF c.hit THEN c.g ELSE [c.g EXCEPT !.x = @ + 1]]
                       : c \in {check_hit(st.g, st.g.x + 1, st.g.y, st.g.r)} })
           ELSE st
      [] key = "down" ->
           Only({ main_lock([st EXCEPT !.g = g1]) : g1 \in {main_drop(st.g)} })
      [] key = "up" -> Only({ [st EXCEPT !.g = g1] : g1 \in {main_rotate(st.g)} })
      [] OTHER -> st

\* a position of the terminal program at the top of runloop: the board with a well,
\* score 0, and a piece that the update_piece of the last iteration has painted
InitMain ==
    /\ InitNew
    /\ tetromino = NoDraw
    /\ \E w \in WellColumns : \E nt \in main_Draws : \E b \in {WellBoard(w)} :
       \E g0 \in {new_tetramino([main_Game0 EXCEPT !.board = b, !.tick = WellTick], nt)} :
         game = update_piece(g0)
    /\ running = TRUE
    /\ hist = NoHist

\* the values the call of new_tetramino that st has left to be made can draw
MainDraws(st) == IF st.spawn THEN main_Draws ELSE {NoMainDraw}

\* st once the call of new_tetramino it has left to be made is made, drawing nt
Spawned(st, nt) ==
    IF st.spawn THEN [st EXCEPT !.g = new_tetramino(@, nt), !.spawn = FALSE] ELSE st

\* one iteration of runloop (lines 250-305)
RunLoop(key) ==
    /\ running
    /\ hist.iterations < MaxIterations
    /\ \E st \in {[g |-> game, h |-> [hist EXCEPT !.iterations = @ + 1], spawn |-> FALSE]} :
       \E t0 \in {main_do_tick(st)} :
       \E nt1 \in MainDraws(t0.st) :
       \E t \in {Spawned(t0.st, nt1)} :
         IF ~t0.ret \/ key = "q"
         THEN /\ game' = t.g
              /\ hist' = t.h
              /\ running' = FALSE
         ELSE \E k0 \in {main_key(t, key)} :
              \E nt2 \in MainDraws(k0) :
              \E k \in {Spawned(k0, nt2)} :
                /\ game' = update_piece(k.g)
                /\ hist' = k.h
                /\ running' = TRUE
    /\ UNCHANGED gameVars

NextMain == \E key \in Keys : RunLoop(key)

SpecMain == InitMain /\ [][NextMain]_vars

(***************************************************************************)
(* Properties                                                              *)
(***************************************************************************)
\* the candidate (x', y', r') of a move as section 4.3 states it
MoveTarget(t, m) ==
    LET r2 == IF m = "Rotate" THEN (t.orientation + 1) % 4 ELSE t.orientation
        x2 == CASE m = "Left" -> t.x - 1
                [] m = "Right" -> t.x + 1
                [] m = "Down" -> t.x
                [] m = "Rotate" ->
                     IF t.x + width(t.shape, r2) > BOARD_WIDTH
                     THEN BOARD_WIDTH - width(t.shape, r2)
                     ELSE t.x
        y2 == IF m = "Down" THEN t.y + 1 ELSE t.y
    IN  [t EXCEPT !.x = x2, !.y = y2, !.orientation = r2]

\* the move is rejected at an edge, before any collision test
EdgeRejected(t, m) ==
    \/ m = "Left" /\ t.x = 0
    \/ m = "Right" /\ t.x + width(t.shape, t.orientation) >= BOARD_WIDTH
    \/ MoveTarget(t, m).y + height(t.shape, MoveTarget(t, m).orientation) > BOARD_HEIGHT

\* the pure collision test: every candidate cell is inside the board and is empty
\* or a cell of the piece's current footprint
PureFree(b, t, m) ==
    \A c \in Cells(MoveTarget(t, m)) :
        InBoard(c) /\ (b[c[2]][c[1]] = 0 \/ c \in Cells(t))

\* the board shows nothing but the active piece
OnEmptyBoard(b, t) ==
    \A y \in Rows : \A x \in Cols : b[y][x] # 0 => <<x, y>> \in Cells(t)

\* C1 (as claimed): a try_move that returns false leaves the piece, every board
\* cell, the score and the tick exactly as they were
C1_RejectedMoveChangesNothing ==
    [][(op' = "try_move" /\ ret' = FALSE)
         => UNCHANGED <<board, tetromino, score, tick>>]_vars

\* C2: try_move(m) returns true exactly when the move is not edge-rejected and the
\* pure collision test that ignores the piece's own footprint passes; on an empty
\* board Down succeeds while y + height < BOARD_HEIGHT and fails, y unchanged,
\* once y + height = BOARD_HEIGHT
C2_TryMoveIsPureTest ==
    [][op' = "try_move" =>
         /\ ret' = (~EdgeRejected(tetromino, arg') /\ PureFree(board, tetromino, arg'))
         /\ (arg' = "Down" /\ OnEmptyBoard(board, tetromino)) =>
               /\ ret' = (tetromino.y + height(tetromino.shape, tetromino.orientation)
                            < BOARD_HEIGHT)
               /\ ~ret' => tetromino'.y = tetromino.y
               /\ ~ret' => tetromino'.y
                             = BOARD_HEIGHT
                               - height(tetromino.shape, tetromino.orientation)]_vars

\* C2 witness: on an otherwise empty board a piece resting on the floor was refused
\* a Down move
C2_Witness ==
    /\ op = "try_move" /\ arg = "Down" /\ ret = FALSE
    /\ board = set_tetromino(EmptyBoard, tetromino)
    /\ tetromino.y + height(tetromino.shape, tetromino.orientation) = BOARD_HEIGHT

\* C3: the active piece always lies inside the board, so no board index is out of
\* range and no subtraction underflows
C3_PieceInsideBoard ==
    /\ ~panicked
    /\ tetromino.x >= 0
    /\ tetromino.y >= 0
    /\ tetromino.x + width(tetromino.shape, tetromino.orientation) <= BOARD_WIDTH
    /\ tetromino.y + height(tetromino.shape, tetromino.orientation) <= BOARD_HEIGHT
    /\ \A c \in Cells(tetromino) : InBoard(c)
    /\ BOARD_WIDTH - width(tetromino.shape, (tetromino.orientation + 1) % 4) >= 0

\* C3 witness: a piece in the bottom right corner was refused a Right move
C3_Witness ==
    /\ op = "try_move" /\ arg = "Right" /\ ret = FALSE
    /\ tetromino.x + width(tetromino.shape, tetromino.orientation) = BOARD_WIDTH
    /\ tetromino.y + height(tetromino.shape, tetromino.orientation) = BOARD_HEIGHT

\* C4: after a try_move that returns true the piece is at the candidate of the
\* move, the cells of the new footprint were empty or the piece's own and now hold
\* kind + 1, the old cells outside the new footprint are 0, all else is unchanged
C4_SuccessfulMove ==
    [][(op' = "try_move" /\ ret' = TRUE) =>
         /\ tetromino' = MoveTarget(tetromino, arg')
         /\ \A old \in {Cells(tetromino)} : \A new \in {Cells(tetromino')} :
               /\ \A c \in new :
                     /\ board[c[2]][c[1]] = 0 \/ c \in old
                     /\ board'[c[2]][c[1]] = tetromino.shape + 1
               /\ \A c \in old \ new : board'[c[2]][c[1]] = 0
               /\ \A y \in Rows : \A x \in Cols :
                     <<x, y>> \notin (old \cup new) => board'[y][x] = board[y][x]]_vars

\* C4 witness: a Rotate that needed the wall kick has succeeded next to a stack
C4_Witness ==
    /\ op = "try_move" /\ arg = "Rotate" /\ ret = TRUE
    /\ tetromino.x + width(tetromino.shape, tetromino.orientation) = BOARD_WIDTH
    /\ tetromino.x + width(tetromino.shape, (tetromino.orientation + 3) % 4)
         < BOARD_WIDTH
    /\ locked # EmptyBoard

\* the rows of the piece's vertical span that are completely filled on board b
FilledInSpan(b, t) ==
    { row \in t.y .. (t.y + height(t.shape, t.orientation) - 1) :
        \A x \in Cols : b[row][x] # 0 }

\* board b with the rows F deleted and as many empty rows inserted at the top
RowsDeleted(b, F) ==
    IF F = {} THEN b
    ELSE [y \in Rows |->
            IF y < Cardinality(F) THEN [x \in Cols |-> 0]
            ELSE b[CHOOSE i \in Rows \ F :
                       i - Cardinality({f \in F : f < i}) = y - Cardinality(F)]]

\* this do_tick call attempts a gravity step, and its try_move(Down) fails
GravityFails ==
    /\ ~paused
    /\ gravity(tickNext(tick))
    /\ ~try_move(board, tetromino, "Down").ret

\* C5 (as claimed): when the gravity step of do_tick fails at y = 0, do_tick returns
\* false and leaves every board cell and the score as they were
C5_GameOverLeavesBoard ==
    [][(op' = "do_tick" /\ GravityFails /\ tetromino.y = 0)
         => (ret' = FALSE /\ board' = board /\ score' = score)]_vars

\* C6 (as claimed): once do_tick has returned false, every later do_tick returns
\* false and changes neither the board nor the piece nor the score
C6_GameOverIsTerminal ==
    [][(over /\ op' = "do_tick")
         => (ret' = FALSE /\ UNCHANGED <<board, tetromino, score>>)]_vars

\* C6 (amended): once do_tick has returned false and while no try_move is called,
\* no later do_tick changes the board, the piece or the score, and each returns
\* false exactly when it attempts a gravity step (true when it attempts none)
C6_GameOverPersists ==
    [][(over /\ op' = "do_tick")
         => /\ UNCHANGED <<board, tetromino, score>>
            /\ ret' = ~(~paused /\ gravity(tickNext(tick)))]_vars

\* C6 witness: the piece in play from the start could not leave y = 0 at the first
\* tick, and the second tick, a gravity step too, has reported game over again
C6_Witness ==
    /\ over /\ op = "do_tick" /\ ret = FALSE /\ path = "gameover"
    /\ played = 0 /\ ticks = 2

\* C7: a lock removes exactly the rows of the landed piece's span that were filled,
\* consecutive or not: the score grows by their number k, and the board is the old
\* one with those rows deleted and k empty rows on top
C7_WipeFilledRows ==
    [][(op' = "do_tick" /\ path' = "lock") =>
         \A F \in {FilledInSpan(board, tetromino)} :
             /\ score' = score + Cardinality(F)
             /\ board' = RowsDeleted(board, F)]_vars

\* C7 witness: a lock has cleared four consecutive rows at once
C7_Witness ==
    /\ op = "do_tick" /\ path = "lock"
    /\ score = 4

\* C8: do_tick replaces the active piece exactly when its gravity step fails at
\* y > 0; it then returns true, the landed piece's cells hold kind + 1 and change
\* only by the row clears, and the new piece has y = 0, a kind in [0,7), an
\* orientation in [0,4) and 0 <= x <= BOARD_WIDTH - width
C8_LockAndSpawn ==
    [][op' = "do_tick" =>
         IF GravityFails /\ tetromino.y > 0
         THEN /\ ret' = TRUE
              /\ \A c \in Cells(tetromino) : board[c[2]][c[1]] = tetromino.shape + 1
              /\ board' = RowsDeleted(board, FilledInSpan(board, tetromino))
              /\ played' = played + 1
              /\ tetromino'.y = 0
              /\ tetromino'.shape \in 0 .. 6
              /\ tetromino'.orientation \in 0 .. 3
              /\ tetromino'.x >= 0
              /\ tetromino'.x
                   <= BOARD_WIDTH - width(tetromino'.shape, tetromino'.orientation)
         ELSE /\ played' = played
              /\ \/ tetromino' = tetromino
                 \/ tetromino' = [tetromino EXCEPT !.y = tetromino.y + 1]]_vars

\* C8 witness: a lock that cleared no row has spawned a piece at the right wall
C8_Witness ==
    /\ op = "do_tick" /\ path = "lock" /\ ret = TRUE
    /\ score = 0
    /\ fresh
    /\ tetromino.x + width(tetromino.shape, tetromino.orientation) = BOARD_WIDTH

\* C9 (as claimed): the active piece never overlaps a cell locked by an earlier
\* piece, and every cell locked by an earlier piece keeps its value
C9_NoOverlapWithLocked ==
    /\ \A c \in Cells(tetromino) : locked[c[2]][c[1]] = 0
    /\ \A y \in Rows : \A x \in Cols : locked[y][x] # 0 => board[y][x] = locked[y][x]

\* C10 (as claimed): when the cells a piece was spawned on are occupied, the next
\* gravity step of do_tick cannot move it down from y = 0 and reports game over
C10_OccupiedSpawnEndsGame ==
    [][(/\ fresh
        /\ \E c \in Cells(tetromino) : board[c[2]][c[1]] # 0
        /\ op' = "do_tick"
        /\ ~paused
        /\ gravity(tickNext(tick)))
         => (ret' = FALSE /\ tetromino'.y = 0)]_vars

\* C11 (as claimed): after every try_move call, returning true or false, all 4 cells
\* of the piece's footprint hold kind + 1 on the board
C11_BoardShowsPiece ==
    [][op' = "try_move" =>
         \A c \in Cells(tetromino') : board'[c[2]][c[1]] = tetromino'.shape + 1]_vars

\* C12 (as claimed): a successful Rotate sets the orientation to (r + 1) mod 4, keeps
\* y, and sets x' = x, or BOARD_WIDTH - width(r') when x + width(r') > BOARD_WIDTH;
\* a Rotate whose candidate passes the floor or collides is rejected, and the piece
\* and the board are as before
C12_RotateWallKick ==
    [][(op' = "try_move" /\ arg' = "Rotate") =>
         \A r2 \in {(tetromino.orientation + 1) % 4} :
         \A w2 \in {width(tetromino.shape, r2)} :
             /\ ret' =>
                   /\ tetromino'.orientation = r2
                   /\ tetromino'.y = tetromino.y
                   /\ tetromino'.shape = tetromino.shape
                   /\ tetromino'.x = IF tetromino.x + w2 <= BOARD_WIDTH
                                     THEN tetromino.x
                                     ELSE BOARD_WIDTH - w2
                   /\ tetromino'.x <= tetromino.x
             /\ (\/ tetromino.y + height(tetromino.shape, r2) > BOARD_HEIGHT
                 \/ ~PureFree(board, tetromino, "Rotate"))
                  => (ret' = FALSE /\ UNCHANGED <<board, tetromino>>)]_vars

\* C13: while paused is true, do_tick returns true and leaves the tick counter, the
\* level, the board, the active piece and the score unchanged, call after call
C13_PausedTickIsNoOp ==
    [][(paused /\ op' = "do_tick") =>
         /\ ret' = TRUE
         /\ UNCHANGED <<tick, board, tetromino, score>>
         /\ level(tick') = level(tick)]_vars

\* C13 witness: a paused game with a piece in play on a stack has been ticked, at a
\* tick whose successor would be a gravity step
C13_Witness ==
    /\ paused /\ op = "do_tick" /\ ret = TRUE /\ path = "paused"
    /\ locked # EmptyBoard
    /\ gravity(tickNext(tick))

\* the tick counter is below LEVEL_TICK_INCREASE^2, and its value as a number
SmallTick(t) == \A i \in 3 .. Len(t) : t[i] = 0
NumOf(t) == t[1] + LEVEL_TICK_INCREASE * t[2]

\* tick mod FRAMES_PER_DROP <= tick div LEVEL_TICK_INCREASE, in numbers (the quotient
\* of a counter that is not small is at least LEVEL_TICK_INCREASE)
GravityDue(t) ==
    SmallTick(t) => NumOf(t) % FRAMES_PER_DROP <= NumOf(t) \div LEVEL_TICK_INCREASE

\* min(level, FRAMES_PER_DROP) at tick t
LevelCap(t) ==
    IF SmallTick(t) THEN Min(1 + NumOf(t) \div LEVEL_TICK_INCREASE, FRAMES_PER_DROP)
    ELSE FRAMES_PER_DROP

\* the number of ticks of the aligned block of t at which the code's test holds
FiresInBlock(t) ==
    Cardinality({ k \in 0 .. (FRAMES_PER_DROP - 1) :
                    gravity([t EXCEPT ![1] = t[1] - (t[1] % FRAMES_PER_DROP) + k]) })

\* the last do_tick call went into the gravity step
GravityAttempted(p) == p \in {"moved", "gameover", "lock", "panic"}

\* C14: level = 1 + tick div LEVEL_TICK_INCREASE (1 at tick 0, 2 at tick 6000); an
\* unpaused do_tick attempts a gravity step exactly when the incremented tick has
\* tick mod FRAMES_PER_DROP <= tick div LEVEL_TICK_INCREASE; in the aligned block of
\* a tick at level L the test holds min(L, FRAMES_PER_DROP) times, a number that
\* never decreases as the tick grows, and it holds at every tick once
\* tick div LEVEL_TICK_INCREASE >= FRAMES_PER_DROP
C14_LevelAndGravity ==
    [][(op' = "do_tick" /\ ~paused) =>
         /\ GravityAttempted(path') = GravityDue(tick')
         /\ SmallTick(tick') =>
               level(tick') = TickOf(1 + NumOf(tick') \div LEVEL_TICK_INCREASE)
         /\ tick' = TickZero => level(tick') = TickOf(1)
         /\ tick' = TickOf(LEVEL_TICK_INCREASE) => level(tick') = TickOf(2)
         /\ FiresInBlock(tick') = LevelCap(tick')
         /\ tick' # TickZero => FiresInBlock(tick') >= FiresInBlock(tick)
         /\ (~SmallTick(tick') \/ tick'[2] >= FRAMES_PER_DROP)
               => GravityAttempted(path')]_vars

\* C14 witness: at level 30 a do_tick has attempted a gravity step at the last tick
\* of an aligned block
C14_Witness ==
    /\ op = "do_tick" /\ path = "gameover" /\ ticks > 1
    /\ tick = TickOf(LEVEL_TICK_INCREASE * FRAMES_PER_DROP - 1)

\* a <= b for two numbers written as digits, least digit first
DigitsLeq(a, b) ==
    \/ a = b
    \/ \E i \in 1 .. Len(a) : a[i] < b[i] /\ \A j \in (i + 1) .. Len(a) : a[j] = b[j]

\* the last value of the tick counter before it wraps: u64::MAX - 1
LastTick == [U64_MAX EXCEPT ![1] = U64_MAX[1] - 1]

MaxOf(S) == CHOOSE m \in S : \A n \in S : n <= m

\* C16: for the kind and rotation of every piece in play, Shape::coor returns 4
\* pairwise distinct cells, all within [0,4) x [0,4), with minimum x and minimum y
\* both 0, and Shape::dim returns (max x + 1, max y + 1) over those cells
C16_CoorAndDim ==
    \A a \in {coor(tetromino.shape, tetromino.orientation)} :
    \A cs \in {{a[i] : i \in 1 .. Len(a)}} :
        /\ Len(a) = 4
        /\ Cardinality(cs) = 4
        /\ \A c \in cs : c[1] \in 0 .. 3 /\ c[2] \in 0 .. 3
        /\ \E c \in cs : c[1] = 0
        /\ \E c \in cs : c[2] = 0
        /\ a = coorOf(tetromino.shape, tetromino.orientation)
        /\ dim(tetromino.shape, tetromino.orientation)
             = <<MaxOf({c[1] : c \in cs}) + 1, MaxOf({c[2] : c \in cs}) + 1>>

\* C16 witness: every kind is in play in every rotation; here the I piece, rotated by
\* the player to lie flat, 4 wide and 1 high
C16_Witness ==
    /\ op = "try_move" /\ arg = "Rotate" /\ ret = TRUE
    /\ tetromino.shape = 5
    /\ dim(tetromino.shape, tetromino.orientation) = <<4, 1>>

\* the 90-degree step (x, y) -> (3 - y, x) on a set of cells, re-normalized by
\* subtracting the minimum x and the minimum y
QuarterTurn(cs) ==
    LET turned == { <<3 - c[2], c[1]>> : c \in cs }
        mx == CHOOSE m \in {c[1] : c \in turned} : \A c \in turned : m <= c[1]
        my == CHOOSE m \in {c[2] : c \in turned} : \A c \in turned : m <= c[2]
    IN  { <<c[1] - mx, c[2] - my>> : c \in turned }

\* the cell set of Shape::coor
CoorSet(kind, r) == { coor(kind, r)[i] : i \in 1 .. 4 }

\* C17: for the kind and rotation r of every piece in play, the 90-degree step on
\* the cells of coor(kind, r), re-normalized, gives the cell set of
\* coor(kind, (r + 1) mod 4), and four successive steps return the original set
C17_RotationIsCyclic ==
    \A k \in {tetromino.shape} : \A r \in {tetromino.orientation} :
    \A s0 \in {CoorSet(k, r)} : \A s1 \in {QuarterTurn(s0)} :
    \A s2 \in {QuarterTurn(s1)} : \A s3 \in {QuarterTurn(s2)} :
        /\ s1 = CoorSet(k, (r + 1) % 4)
        /\ QuarterTurn(s3) = s0
        /\ s0 = { coorOf(k, r)[i] : i \in 1 .. 4 }

\* C17 witness: the player has rotated a T piece from rotation 3 on to rotation 0
C17_Witness ==
    /\ op = "try_move" /\ arg = "Rotate" /\ ret = TRUE
    /\ tetromino.shape = 4 /\ tetromino.orientation = 0
    /\ CoorSet(4, 0) # CoorSet(4, 1)

\* C18: Board::is_filled(row) is true iff each of the BOARD_WIDTH cells of the row
\* is non-zero; Board::wipe(row), for any row, leaves each row i with 1 <= i <= row
\* equal to the old row i - 1, row 0 all zero, and every row below `row` as it was
C18_IsFilledAndWipe ==
    [][/\ op' = "is_filled" =>
             ret' = (Cardinality({x \in Cols : board[probe'.row][x] # 0}) = BOARD_WIDTH)
       /\ op' = "wipe" =>
             /\ \A i \in 1 .. probe'.row : board'[i] = board[i - 1]
             /\ \A x \in Cols : board'[0][x] = 0
             /\ \A i \in (probe'.row + 1) .. (BOARD_HEIGHT - 1) : board'[i] = board[i]
             /\ DOMAIN board' = Rows]_vars

\* C18 witness: with the I piece at the bottom of the well, the bottom row was wiped
\* and the complete row above it has come down
C18_Witness ==
    /\ op = "wipe" /\ probe.row = BOARD_HEIGHT - 1
    /\ tetromino.y + height(tetromino.shape, tetromino.orientation) = BOARD_HEIGHT
    /\ \A x \in Cols : board[BOARD_HEIGHT - 1][x] # 0
    /\ \E x \in Cols : board[BOARD_HEIGHT - TETROMINO_HEIGHT][x] = 0

\* the board that removing the complete rows of the span first .. last leaves, row by
\* row from the top: every row above a complete row moves down by one, row 0 is cleared
RECURSIVE RowsCollapsed(_, _, _)
RowsCollapsed(b, first, last) ==
    IF first > last THEN b
    ELSE IF \A x \in Cols : b[first][x] # 0
    THEN RowsCollapsed([y \in Rows |-> IF y = 0 THEN [x \in Cols |-> 0]
                                      ELSE IF y <= first THEN b[y - 1] ELSE b[y]],
                       first + 1, last)
    ELSE RowsCollapsed(b, first + 1, last)

\* C19: in main.rs, wipe_filled_rows adds exactly 1 to score for each complete row of
\* the span of the landed piece and collapses that row (the rows above move down by
\* one, row 0 is cleared), so that score is always the number of rows cleared so far
C19_ScoreCountsClearedRows ==
    /\ game.score = hist.rows
    /\ hist.calls > 0 =>
         /\ hist.after.score =
                hist.before.score + Cardinality(main_filledRows(hist.before))
         /\ hist.after.board =
                RowsCollapsed(hist.before.board, hist.before.y,
                              hist.before.y + main_height(hist.before.p, hist.before.r))

\* C20: right after do_tick has locked a piece and drawn the next one, no row of the
\* board is complete
C20_NoFullRowAfterLock ==
    (op = "do_tick" /\ path = "lock") =>
        \A y \in Rows : \E x \in Cols : board[y][x] = 0

\* C20 witness: a lock that completed some rows of the span of the piece, but not all
\* of them, and cleared them
C20_Witness ==
    /\ op = "do_tick" /\ path = "lock"
    /\ played = 1
    /\ score > 0 /\ score < TETROMINO_HEIGHT

\* C21: no operation decreases the y of the piece in play (it changes to 0 only when
\* do_tick replaces the piece); every gravity step moves the piece down by one or ends
\* it (lock, or game over), and fewer than BOARD_HEIGHT of them can move it; so while
\* do_tick keeps being called with the game not paused, the piece is eventually
\* locked and replaced or do_tick reports game over
C21_PieceLands ==
    /\ [][tetromino'.y < tetromino.y => (op' = "do_tick" /\ path' = "lock")]_vars
    /\ [][(op' = "do_tick" /\ ~paused /\ gravity(tick')) =>
             \/ path' \in {"lock", "gameover"}
             \/ /\ path' = "moved"
                /\ tetromino'.y = tetromino.y + 1
                /\ fell' = fell + 1
                /\ fell' < BOARD_HEIGHT]_vars
    /\ (~paused /\ ~LiveDone) ~>
           (paused \/ (op = "do_tick" /\ path \in {"lock", "gameover"}))

\* C21 witness: a piece has fallen by gravity alone from the top to the floor of the
\* empty board, and the gravity step after that has locked it
C21_Witness ==
    /\ op = "do_tick" /\ path = "lock"
    /\ ~paused
    /\ ticks > BOARD_HEIGHT - TETROMINO_HEIGHT
    /\ \E x \in Cols : locked[BOARD_HEIGHT - 1][x] # 0
    /\ \A x \in Cols : locked[BOARD_HEIGHT - TETROMINO_HEIGHT - 1][x] = 0

====
